---- MODULE Spec2Model ----
(***************************************************************************)
(* Model of the CI domain checker, src/ci/check-domains.js.  The file      *)
(* holds two revisions of the script: revision "A" (lines 1-288) and       *)
(* revision "B" (lines 290-577).  One run of main is modelled: domain      *)
(* extraction, the sequential for-loop over the domains, the DNS lookups,  *)
(* the redirect loop of checkDomainStatus, the event handlers of fetchUrl  *)
(* (timer, response, end, error) and the content classification.           *)
(*                                                                         *)
(* An await resumes its function in a microtask, before any further I/O    *)
(* event is dispatched, so every action below is one event handler         *)
(* together with the code that runs until the next await.                  *)
(***************************************************************************)
EXTENDS Integers, Sequences, FiniteSets, TLC

\* ------------------------------------------------------------ bounds ----
\* longest list of unique domains that the extraction hands to main
MaxDomains == 2
\* paths "/p1" .. "/pMaxPath" exist besides the root path "/"
MaxPath == 5

\* ------------------------------------------------------------ config ----
MAX_REDIRECTS == 5

Revisions == {"A", "B"}

PLACEHOLDER_PATTERNS ==
  {"Welcome to nginx!", "This domain is parked", "Buy this domain",
   "Domain for sale", "Default PLESK Page"}

WAF_PATTERNS ==
  {"Attention Required! | Cloudflare", "Checking your browser before accessing",
   "DDOS protection by"}

ERROR_PAGE_PATTERNS ==
  {"Error 521", "Error 522", "Error 523", "Error 524", "Error 525",
   "Service Temporarily Unavailable"}

STATUS_ICONS ==
  {"VALID", "PLACEHOLDER", "EMPTY_PAGE", "JS_ONLY", "CLIENT_ERROR",
   "SERVER_ERROR", "INVALID_SSL", "EXPIRED", "UNREACHABLE", "REFUSED",
   "TIMEOUT", "REDIRECT_LOOP", "PROTECTED", "UNKNOWN"}

\* ------------------------------------------------------------- URLs -----
\* A URL string is a record [proto, host, path].  path = NoPath is a string
\* without a path component ("https://example.com"), path = 0 is "/" and
\* path = k is "/pk".  Hosts are the domain names 1..MaxDomains and one host
\* that is not in the domain list.
NoPath == -1
ExternalHost == 0
Paths == 0..MaxPath

\* `${protocol}://${domain}`
StartUrl(protocol, domain) == [proto |-> protocol, host |-> domain, path |-> NoPath]

\* new URL(u).toString(): the serializer gives an http(s) URL without a path
\* the path "/"
Href(u) == [u EXCEPT !.path = IF u.path = NoPath THEN 0 ELSE u.path]

\* values of the Location response header
NoLocation == [kind |-> "absent", proto |-> "", host |-> ExternalHost, path |-> NoPath]
EmptyLocation == [kind |-> "empty", proto |-> "", host |-> ExternalHost, path |-> NoPath]
\* a value that new URL() rejects, e.g. "http://"
InvalidLocation == [kind |-> "invalid", proto |-> "", host |-> ExternalHost, path |-> NoPath]
\* a parsable URL of a scheme neither http nor https can request
FtpLocation == [kind |-> "abs", proto |-> "ftp", host |-> ExternalHost, path |-> 0]

\* The program only compares URLs for equality, so the paths are named in
\* the order of their first appearance: a server sends the root path, a path
\* that a visited URL has, or the first path that no visited URL has.
SentPaths(v) ==
  {p \in Paths : p = 0 \/ (\E u \in v : u.path = p)
                        \/ (\A q \in 1..(p - 1) : \E u \in v : u.path = q)}

\* the Location values the server of URL u sends while the URL strings in v
\* are visited: none, unusable ones, the domain's URL without a path, the
\* root URL of the external host and, from the domain's own server, path
\* references
Locations(domain, v, u) ==
  {NoLocation, EmptyLocation, InvalidLocation, FtpLocation}
    \cup {[kind |-> "rel", proto |-> "", host |-> ExternalHost, path |-> p] :
            p \in IF u.host = domain THEN SentPaths(v) ELSE {}}
    \cup {[kind |-> "abs", proto |-> "https", host |-> domain, path |-> NoPath],
          [kind |-> "abs", proto |-> "https", host |-> ExternalHost, path |-> 0]}

\* headers.location is truthy
HasLocation(loc) == loc.kind \notin {"absent", "empty"}

\* new URL(loc, base) succeeds
CanResolve(loc) == loc.kind \in {"rel", "abs"}

\* new URL(headers.location, url).toString()
URLResolve(loc, base) ==
  IF loc.kind = "abs"
    THEN Href([proto |-> loc.proto, host |-> loc.host, path |-> loc.path])
    ELSE [proto |-> base.proto, host |-> base.host, path |-> loc.path]

\* client.get(urlObj, ...) accepts the URL: https.get takes "https:" only and
\* http.get, chosen for every other protocol, takes "http:" only
CanRequest(u) == u.proto \in {"https", "http"}

\* ------------------------------------------------------- response body ---
\* A body is a sequence of fragments: tags, whitespace, and pieces of text.
\* A pattern occurs in the body iff it is one of the fragments.
CfWrapper == "id=\"cf-wrapper\""
CfErrorDetails == "id=\"cf-error-details\""
RayId == "Cloudflare Ray ID"

Bodies ==
  { <<>>,
    <<" ">>,
    <<"Welcome">>,
    <<"<head>", "Welcome", "</head>", " ">>,
    <<"<head>", "Welcome to nginx!", "</head>">>,
    <<"<head>", "<script>", "var x", "</script>", "</head>">>,
    <<"<head>", "<script>", "location.href =", "</script>", "</head>">>,
    <<"<script>", "var x", "</script>">>,
    <<"<noscript>", "Welcome", "</noscript>", "<head>", "</head>">>,
    <<CfWrapper, CfErrorDetails, "Error 521">>,
    <<CfWrapper, CfErrorDetails, "Welcome">>,
    <<CfWrapper, CfErrorDetails, "Error 521", RayId, "Buy this domain">>,
    <<"<noscript>", CfWrapper, CfErrorDetails, "Error 521", "</noscript>">>,
    <<CfWrapper, "Error 521", RayId>>,
    <<RayId, "Welcome">>,
    <<"DDOS protection by", "This domain is parked">>,
    <<"This domain is parked">> }

Includes(body, p) == \E k \in 1..Len(body) : body[k] = p

\* index of the first fragment c after position 1, 0 if there is none
FirstAfter(s, c) ==
  IF \E j \in 2..Len(s) : s[j] = c
    THEN CHOOSE j \in 2..Len(s) : s[j] = c /\ \A k \in 2..(j - 1) : s[k] # c
    ELSE 0

\* s.replace(/<o[^>]*>[\s\S]*?<\/o>/gi, ""): every block from an opening tag
\* to the first closing tag after it is removed
RECURSIVE RemoveBlocks(_, _, _)
RemoveBlocks(s, o, c) ==
  IF s = <<>> THEN <<>>
  ELSE IF Head(s) = o /\ FirstAfter(s, c) # 0
    THEN RemoveBlocks(SubSeq(s, FirstAfter(s, c) + 1, Len(s)), o, c)
    ELSE <<Head(s)>> \o RemoveBlocks(Tail(s), o, c)

\* s.replace(/\s/g, "")
RECURSIVE RemoveSpace(_)
RemoveSpace(s) ==
  IF s = <<>> THEN <<>>
  ELSE IF Head(s) = " " THEN RemoveSpace(Tail(s))
  ELSE <<Head(s)>> \o RemoveSpace(Tail(s))

\* [...body.matchAll(/<script[^>]*>([\s\S]*?)<\/script>/gi)].map(m => m[1]).join("")
RECURSIVE ScriptInner(_)
ScriptInner(s) ==
  IF s = <<>> THEN <<>>
  ELSE IF Head(s) = "<script>" /\ FirstAfter(s, "</script>") # 0
    THEN SubSeq(s, 2, FirstAfter(s, "</script>") - 1)
           \o ScriptInner(SubSeq(s, FirstAfter(s, "</script>") + 1, Len(s)))
    ELSE ScriptInner(Tail(s))

\* String.prototype.trim on a fragment sequence
RECURSIVE Trim(_)
Trim(s) ==
  IF s = <<>> THEN <<>>
  ELSE IF Head(s) = " " THEN Trim(Tail(s))
  ELSE IF s[Len(s)] = " " THEN Trim(SubSeq(s, 1, Len(s) - 1))
  ELSE s

Stripped(body) ==
  RemoveSpace(RemoveBlocks(RemoveBlocks(body, "<head>", "</head>"),
                           "<noscript>", "</noscript>"))

ScriptContent(body) == Trim(ScriptInner(body))

\* fragments that match one of jsRedirectPatterns (revision B)
JsRedirectFragments == {"location.href ="}

\* isEmptyOrJsOnly, revision A; "none" stands for the return value false
IsEmptyOrJsOnlyA(body) ==
  IF body = <<>> THEN "EMPTY_PAGE"
  ELSE IF Stripped(body) = <<>> /\ ScriptContent(body) # <<>> THEN "JS_ONLY"
  ELSE IF Len(Stripped(body)) = 0 THEN "EMPTY_PAGE"
  ELSE "none"

\* isEmptyOrJsOnly, revision B
IsEmptyOrJsOnlyB(body) ==
  IF body = <<>> THEN "EMPTY_PAGE"
  ELSE IF Stripped(body) = <<>> /\ ScriptContent(body) # <<>>
    THEN IF \E f \in JsRedirectFragments : Includes(ScriptContent(body), f)
           THEN "JS_ONLY" ELSE "EMPTY_PAGE"
  ELSE "none"

\* variant: the Cloudflare identifier and the WAF phrases are tested before
\* the Cloudflare error page
PatternStatus_wafFirst(body) ==
  IF Includes(body, RayId) \/ \E p \in WAF_PATTERNS : Includes(body, p)
    THEN "PROTECTED"
  ELSE IF Includes(body, CfWrapper) /\ Includes(body, CfErrorDetails)
    THEN IF \E p \in ERROR_PAGE_PATTERNS : Includes(body, p)
           THEN "SERVER_ERROR" ELSE "PROTECTED"
  ELSE IF \E p \in PLACEHOLDER_PATTERNS : Includes(body, p)
    THEN "PLACEHOLDER"
  ELSE "VALID"

\* the Cloudflare / WAF / placeholder checks shared by both revisions
PatternStatus(body) ==
  IF Includes(body, CfWrapper) /\ Includes(body, CfErrorDetails)
    THEN IF \E p \in ERROR_PAGE_PATTERNS : Includes(body, p)
           THEN "SERVER_ERROR" ELSE "PROTECTED"
  ELSE IF Includes(body, RayId) \/ \E p \in WAF_PATTERNS : Includes(body, p)
    THEN "PROTECTED"
  ELSE IF \E p \in PLACEHOLDER_PATTERNS : Includes(body, p)
    THEN "PLACEHOLDER"
  ELSE "VALID"

\* content classification of a response that is neither an error nor a redirect
ContentStatusOf(r, body) ==
  IF r = "A"
    THEN IF IsEmptyOrJsOnlyA(body) # "none" THEN IsEmptyOrJsOnlyA(body)
         ELSE PatternStatus(body)
    ELSE IF body = <<>> THEN "VALID"
         ELSE IF IsEmptyOrJsOnlyB(body) # "none" THEN IsEmptyOrJsOnlyB(body)
         ELSE PatternStatus(body)

\* the classification of every body, tabulated
ContentTable == [r \in Revisions |-> [body \in Bodies |-> ContentStatusOf(r, body)]]

ContentStatus(r, body) == ContentTable[r][body]


\* ------------------------------------------------------- classification --
StatusCodes == {200, 300, 399, 400, 499, 500}

\* err.code values of the request's "error" event
ErrorCodes ==
  {"ECONNREFUSED", "ENOTFOUND", "EHOSTUNREACH", "CERT_HAS_EXPIRED",
   "DEPTH_ZERO_SELF_SIGNED_CERT", "ECONNRESET", "ETIMEDOUT"}

LowLevelTags == {"TIMEOUT", "REFUSED", "INVALID_SSL", "UNREACHABLE"}

\* variant: an error code that is not listed is reported as UNKNOWN
FetchErrorTag_unknown(code) ==
  IF code \in {"ECONNREFUSED", "ENOTFOUND", "EHOSTUNREACH"} THEN "REFUSED"
  ELSE IF code \in {"CERT_HAS_EXPIRED", "DEPTH_ZERO_SELF_SIGNED_CERT"} THEN "INVALID_SSL"
  ELSE "UNKNOWN"

\* the tag that the "error" handler of fetchUrl resolves with
FetchErrorTag(code) ==
  IF code \in {"ECONNREFUSED", "ENOTFOUND", "EHOSTUNREACH"} THEN "REFUSED"
  ELSE IF code \in {"CERT_HAS_EXPIRED", "DEPTH_ZERO_SELF_SIGNED_CERT"} THEN "INVALID_SSL"
  ELSE "UNREACHABLE"

\* what checkDomainStatus does with the outcome of one fetch
ReturnStatus(status) == [kind |-> "return", status |-> status]
FollowRedirect == [kind |-> "redirect", status |-> "none"]
ThrowError == [kind |-> "throw", status |-> "none"]

\* variant: every low-level failure is reported as UNREACHABLE
LowLevelVerdict_collapsed(status) == ReturnStatus("UNREACHABLE")

\* if (status) return status;
LowLevelVerdict(status) == ReturnStatus(status)

\* variant: the comparisons exclude the boundaries 500 and 400
HttpErrorStatus_strict(statusCode) ==
  IF statusCode > 500 THEN "SERVER_ERROR"
  ELSE IF statusCode > 400 THEN "CLIENT_ERROR"
  ELSE "none"

\* if (statusCode >= 500) return "SERVER_ERROR"; if (statusCode >= 400) return "CLIENT_ERROR";
HttpErrorStatus(statusCode) ==
  IF statusCode >= 500 THEN "SERVER_ERROR"
  ELSE IF statusCode >= 400 THEN "CLIENT_ERROR"
  ELSE "none"

\* statusCode >= 300 && statusCode < 400 && headers.location
IsRedirect(statusCode, loc) ==
  statusCode >= 300 /\ statusCode < 400 /\ HasLocation(loc)

\* url = new URL(headers.location, url).toString(); redirects++; continue;
RedirectVerdict(loc) == IF CanResolve(loc) THEN FollowRedirect ELSE ThrowError

\* body of the while loop after the fetch, revision A: HTTP errors first
ResponseVerdictA(statusCode, loc, body) ==
  IF HttpErrorStatus(statusCode) # "none" THEN ReturnStatus(HttpErrorStatus(statusCode))
  ELSE IF IsRedirect(statusCode, loc) THEN RedirectVerdict(loc)
  ELSE ReturnStatus(ContentStatus("A", body))

\* body of the while loop after the fetch, revision B: redirects first
ResponseVerdictB(statusCode, loc, body) ==
  IF IsRedirect(statusCode, loc) THEN RedirectVerdict(loc)
  ELSE IF HttpErrorStatus(statusCode) # "none" THEN ReturnStatus(HttpErrorStatus(statusCode))
  ELSE ReturnStatus(ContentStatus("B", body))

ResponseVerdict(r, statusCode, loc, body) ==
  IF r = "A" THEN ResponseVerdictA(statusCode, loc, body)
  ELSE ResponseVerdictB(statusCode, loc, body)

\* variant: the loop admits one more iteration
LoopGuard_inclusive(n) == n <= MAX_REDIRECTS

\* while (redirects < MAX_REDIRECTS)
LoopGuard(n) == n < MAX_REDIRECTS

\* ------------------------------------------------------------ results ----
\* variant: an unresolvable domain is reported as UNREACHABLE
ExpiredResult_unreachable(domain) ==
  [domain |-> domain, status |-> "UNREACHABLE", resolvable |-> FALSE, accessible |-> FALSE]

\* return { domain, status: "EXPIRED", resolvable: false, accessible: false };
ExpiredResult(domain) ==
  [domain |-> domain, status |-> "EXPIRED", resolvable |-> FALSE, accessible |-> FALSE]

\* variant: every resolvable domain is reported as accessible
CheckDomainResult_resolvable(domain, status) ==
  [domain |-> domain, status |-> status, resolvable |-> TRUE, accessible |-> TRUE]

\* return { domain, status, resolvable: true, accessible: status === "VALID" };
CheckDomainResult(domain, status) ==
  [domain |-> domain, status |-> status, resolvable |-> TRUE,
   accessible |-> (status = "VALID")]

\* variant: a result is put at the front of the list
PushResult_front(rs, r) == <<r>> \o rs

\* variant: only the results of resolvable domains are kept
PushResult_resolvable(rs, r) == IF r.resolvable THEN Append(rs, r) ELSE rs

\* results.push(result)
PushResult(rs, r) == Append(rs, r)

\* ------------------------------------------------------------- state -----
VARIABLES
  rev,            \* the revision of the script that runs
  pc,             \* where main (and the calls it awaits) stands
  uniqueDomains,  \* main: the deduplicated domain list
  i,              \* main: number of the domain the for loop is at
  results,        \* main: the results list
  exitCode,       \* 1 once process.exit(1) ended the process
  errLogged,      \* console.error printed a failure of main
  exc,            \* origin of the exception that reached main
  url,            \* checkDomainStatus: current URL
  visited,        \* checkDomainStatus: visited URL strings
  redirects,      \* checkDomainStatus: redirect counter
  timer,          \* fetchUrl: the timeout timer of the latest call
  req,            \* fetchUrl: the request of the latest call
  pending,        \* fetchUrl: the promise of the latest call is unsettled
  stale,          \* fetchUrl: open requests of earlier calls, by state
  dns,            \* history: DNS outcome for the current domain
  nFetch,         \* history: requests issued for the current domain
  refetch,        \* history: a request went to a URL requested before
  outcome,        \* history: what the latest settled fetch of this domain gave
  revisit,        \* history: a followed redirect led to a URL requested before
  first,          \* history: the event that settled the latest call's promise
  late,           \* history: an earlier call's event came while the latest was pending
  probe           \* a response and the verdict on it (ClassifySpec only)

mainVars == <<rev, uniqueDomains, i, results, exitCode, errLogged, exc>>
statusVars == <<url, visited, redirects>>
fetchVars == <<timer, req, pending, stale>>
histVars == <<dns, nFetch, refetch, outcome, revisit, first, late, probe>>
vars == <<pc, mainVars, statusVars, fetchVars, histVars>>

NoUrl == [proto |-> "", host |-> ExternalHost, path |-> NoPath]
NoStale == [sent |-> 0, headers |-> 0]
NoProbe == [code |-> 0, loc |-> NoLocation, body |-> <<>>, verdict |-> ThrowError]

Init ==
  /\ rev \in Revisions
  /\ pc = "start"
  /\ uniqueDomains = <<>>
  /\ i = 0
  /\ results = <<>>
  /\ exitCode = 0
  /\ errLogged = FALSE
  /\ exc = "none"
  /\ url = NoUrl
  /\ visited = {}
  /\ redirects = 0
  /\ timer = "none"
  /\ req = "none"
  /\ pending = FALSE
  /\ stale = NoStale
  /\ dns = "none"
  /\ nFetch = 0
  /\ refetch = FALSE
  /\ outcome = "none"
  /\ revisit = FALSE
  /\ first = "none"
  /\ late = FALSE
  /\ probe = NoProbe

\* the open requests of earlier calls once the latest call's request, in
\* state r, becomes one of them
Leave(st, r) ==
  IF r \in {"sent", "headers"} THEN [st EXCEPT ![r] = @ + 1] ELSE st

\* variant: the resolve function is kept in a variable that all calls share
PromiseOf_shared(call) == "latest"

\* the promise that the handlers of a call settle: resolve is the parameter
\* of the executor of that call's own promise
PromiseOf(call) == call

\* the process runs: process.exit has not been called
Alive == exitCode = 0

\* ------------------------------------------------------ control transfer --
\* checkDomainStatus returns status, checkDomain wraps it, main pushes the
\* result and logs it; the for loop is at its head again
Return(status) ==
  /\ results' = PushResult(results, CheckDomainResult(uniqueDomains[i], status))
  /\ pc' = "for"
  /\ url' = NoUrl
  /\ visited' = {}
  /\ redirects' = 0
  /\ UNCHANGED <<rev, uniqueDomains, i, exitCode, errLogged, exc>>

\* An exception leaves main.  Revision A has no try block: the promise of
\* main rejects and main().catch(console.error) prints it.  Revision B
\* catches it, prints it and calls process.exit(1).
Throw(origin) ==
  /\ exc' = origin
  /\ errLogged' = TRUE
  /\ exitCode' = IF rev = "A" THEN 0 ELSE 1
  /\ pc' = "done"
  /\ url' = NoUrl
  /\ visited' = {}
  /\ redirects' = 0
  /\ UNCHANGED <<rev, uniqueDomains, i, results>>

\* the URLs that the requests for the strings in v went to: fetchUrl requests
\* new URL(url)
Requested(v) == {Href(u) : u \in v}

\* checkDomainStatus acts on the verdict for a response
Apply(verdict, loc) ==
  CASE verdict.kind = "return" ->
         /\ Return(verdict.status)
         /\ UNCHANGED <<revisit, probe>>
    [] verdict.kind = "redirect" ->
         /\ url' = URLResolve(loc, url)
         /\ redirects' = redirects + 1
         /\ revisit' = (revisit \/ Href(URLResolve(loc, url)) \in Requested(visited))
         /\ pc' = "while"
         /\ UNCHANGED <<mainVars, visited, probe>>
    [] OTHER ->
         /\ Throw("status")
         /\ UNCHANGED <<revisit, probe>>

\* ------------------------------------------------------------- main ------
\* extractDomainsFromJSDoc and deduplicateRootDomains deliver n domains
ExtractOk ==
  /\ pc = "start"
  /\ \E n \in 0..MaxDomains :
       /\ uniqueDomains' = [k \in 1..n |-> k]
       /\ pc' = IF n = 0 THEN "done" ELSE "for"
  /\ UNCHANGED <<rev, i, results, exitCode, errLogged, exc>>
  /\ UNCHANGED <<statusVars, fetchVars, histVars>>

\* extractDomainsFromJSDoc rejects or deduplicateRootDomains throws
ExtractFail ==
  /\ pc = "start"
  /\ Throw("extract")
  /\ UNCHANGED <<fetchVars, histVars>>

\* for (const domain of uniqueDomains): the next domain, checkDomain and
\* isDomainResolvable up to the await of dns.resolve4; or the loop ends
ForHead ==
  /\ pc = "for"
  /\ IF i < Len(uniqueDomains)
       THEN /\ i' = i + 1
            /\ pc' = "resolve4"
            /\ dns' = "none"
            /\ nFetch' = 0
            /\ refetch' = FALSE
            /\ outcome' = "none"
            /\ revisit' = FALSE
            /\ first' = "none"
            /\ late' = FALSE
       ELSE /\ i' = i
            /\ pc' = "summary"
            /\ dns' = "none"
            /\ nFetch' = 0
            /\ refetch' = FALSE
            /\ outcome' = "none"
            /\ revisit' = FALSE
            /\ first' = "none"
            /\ late' = FALSE
  /\ UNCHANGED probe
  /\ UNCHANGED <<rev, uniqueDomains, results, exitCode, errLogged, exc>>
  /\ UNCHANGED <<statusVars, fetchVars>>

\* the summary is printed and main returns
Summary ==
  /\ pc = "summary"
  /\ pc' = "done"
  /\ UNCHANGED <<mainVars, statusVars, fetchVars, histVars>>

\* -------------------------------------------------------------- DNS ------
\* isDomainResolvable returned true: checkDomainStatus starts with HTTPS
StartStatus ==
  /\ url' = StartUrl("https", uniqueDomains[i])
  /\ visited' = {}
  /\ redirects' = 0
  /\ pc' = "while"
  /\ UNCHANGED results

\* dns.resolve4 settles
Resolve4 ==
  /\ pc = "resolve4"
  /\ \E ok \in BOOLEAN :
       IF ok THEN StartStatus /\ dns' = "v4"
       ELSE /\ pc' = "resolve6"
            /\ UNCHANGED <<dns, results, statusVars>>
  /\ UNCHANGED <<rev, uniqueDomains, i, exitCode, errLogged, exc>>
  /\ UNCHANGED <<fetchVars, nFetch, refetch, outcome, revisit, first, late, probe>>

\* dns.resolve6 settles; when it fails checkDomain returns the EXPIRED result
Resolve6 ==
  /\ pc = "resolve6"
  /\ \E ok \in BOOLEAN :
       IF ok THEN StartStatus /\ dns' = "v6"
       ELSE /\ dns' = "fail"
            /\ results' = PushResult(results, ExpiredResult(uniqueDomains[i]))
            /\ pc' = "for"
            /\ UNCHANGED statusVars
  /\ UNCHANGED <<rev, uniqueDomains, i, exitCode, errLogged, exc>>
  /\ UNCHANGED <<fetchVars, nFetch, refetch, outcome, revisit, first, late, probe>>

\* -------------------------------------------------- checkDomainStatus ----
\* head of the while loop up to the await of fetchUrl.  fetchUrl arms the
\* timer and then creates the request; client.get throws for a protocol the
\* client does not speak, which rejects the promise (the timer stays armed).
WhileHead ==
  /\ pc = "while"
  /\ IF ~LoopGuard(redirects) \/ url \in visited
       THEN /\ Return("REDIRECT_LOOP")
            /\ UNCHANGED <<fetchVars, histVars>>
       ELSE IF CanRequest(url)
         THEN /\ visited' = visited \cup {url}
              /\ timer' = "armed"
              /\ req' = "sent"
              /\ stale' = Leave(stale, req)
              /\ pending' = TRUE
              /\ pc' = "fetch"
              /\ nFetch' = nFetch + 1
              /\ refetch' = (refetch \/ Href(url) \in Requested(visited))
              /\ first' = "none"
              /\ late' = FALSE
              /\ UNCHANGED <<mainVars, url, redirects, dns, outcome, revisit, probe>>
         ELSE /\ timer' = "armed"
              /\ Throw("status")
              /\ UNCHANGED <<req, pending, stale, histVars>>

\* ------------------------------------------------------------ fetchUrl ---
\* resolve({ status }) of a pending promise: checkDomainStatus resumes with
\* the tag; by names the call whose handler resolved
SettleTag(by, tag) ==
  /\ pending' = FALSE
  /\ outcome' = tag
  /\ first' = by
  /\ Apply(LowLevelVerdict(tag), NoLocation)
  /\ UNCHANGED <<dns, nFetch, refetch>>

\* resolve({ statusCode, headers, body }) of a pending promise.  statusCode
\* and headers are read here for the first time, so their values are drawn
\* here.
SettleResponse(by) ==
  \E statusCode \in StatusCodes, loc \in Locations(uniqueDomains[i], visited, url) :
  \E verdict \in {ResponseVerdict(rev, statusCode, loc, body) : body \in Bodies} :
    /\ pending' = FALSE
    /\ outcome' = IF verdict.kind = "return" THEN "RESPONSE" ELSE "REDIRECT"
    /\ first' = by
    /\ Apply(verdict, loc)
    /\ UNCHANGED <<dns, nFetch, refetch>>

\* resolve of a promise that is settled already has no effect
SettleNothing == UNCHANGED <<pc, mainVars, statusVars, pending, dns, nFetch, refetch, outcome, revisit, first, probe>>

\* the timer callback: resolve({ status: "TIMEOUT" })
Timeout ==
  /\ Alive
  /\ timer = "armed"
  /\ timer' = "fired"
  /\ UNCHANGED <<req, stale, late>>
  /\ IF pending THEN SettleTag("TIMEOUT", "TIMEOUT") ELSE SettleNothing

\* the response callback of client.get: the headers arrived, clearTimeout
ResponseHeaders ==
  /\ Alive
  /\ req = "sent"
  /\ req' = "headers"
  /\ timer' = IF timer = "armed" THEN "cleared" ELSE timer
  /\ UNCHANGED <<pc, mainVars, statusVars, pending, stale, histVars>>

\* res.on("end"): resolve({ statusCode, headers, body })
ResponseEnd ==
  /\ Alive
  /\ req = "headers"
  /\ req' = "ended"
  /\ UNCHANGED <<timer, stale, late>>
  /\ IF pending THEN SettleResponse("END") ELSE SettleNothing

\* req.on("error"): clearTimeout and resolve with the tag for err.code
RequestError ==
  /\ Alive
  /\ req \in {"sent", "headers"}
  /\ req' = "error"
  /\ timer' = IF timer = "armed" THEN "cleared" ELSE timer
  /\ UNCHANGED <<stale, late>>
  /\ IF pending
       THEN \E code \in ErrorCodes : SettleTag("ERROR", FetchErrorTag(code))
       ELSE SettleNothing

\* The handlers of an earlier call of fetchUrl.  A call that ended with
\* TIMEOUT did not abort its request, so its response and error handlers can
\* still run; its timer has fired, so their clearTimeout does nothing.
\* the response callback of an earlier call
StaleHeaders ==
  /\ Alive
  /\ stale.sent > 0
  /\ stale' = [sent |-> stale.sent - 1, headers |-> stale.headers + 1]
  /\ late' = (late \/ pending)
  /\ UNCHANGED <<timer, req>>
  /\ SettleNothing

\* res.on("end") of an earlier call
StaleEnd ==
  /\ Alive
  /\ stale.headers > 0
  /\ stale' = [stale EXCEPT !.headers = @ - 1]
  /\ late' = (late \/ pending)
  /\ UNCHANGED <<timer, req>>
  /\ IF pending /\ PromiseOf("earlier") = "latest"
       THEN SettleResponse("EARLIER") ELSE SettleNothing

\* req.on("error") of an earlier call
StaleError ==
  /\ Alive
  /\ \E st \in {"sent", "headers"} :
       /\ stale[st] > 0
       /\ stale' = [stale EXCEPT ![st] = @ - 1]
  /\ late' = (late \/ pending)
  /\ UNCHANGED <<timer, req>>
  /\ IF pending /\ PromiseOf("earlier") = "latest"
       THEN \E code \in ErrorCodes : SettleTag("EARLIER", FetchErrorTag(code))
       ELSE SettleNothing

Next ==
  \/ ExtractOk
  \/ ExtractFail
  \/ ForHead
  \/ Summary
  \/ Resolve4
  \/ Resolve6
  \/ WhileHead
  \/ Timeout
  \/ ResponseHeaders
  \/ ResponseEnd
  \/ RequestError
  \/ StaleHeaders
  \/ StaleEnd
  \/ StaleError

Spec == Init /\ [][Next]_vars

\* ------------------------------------------- the verdict on one response --
\* The part of the loop body that follows the fetch, applied to one response
\* at a time: every status code, Location value and body, in each revision.
Classify ==
  /\ \E statusCode \in StatusCodes, loc \in Locations(1, {}, StartUrl("https", 1)), body \in Bodies :
       probe' = [code |-> statusCode, loc |-> loc, body |-> body,
                 verdict |-> ResponseVerdict(rev, statusCode, loc, body)]
  /\ UNCHANGED <<pc, mainVars, statusVars, fetchVars>>
  /\ UNCHANGED <<dns, nFetch, refetch, outcome, revisit, first, late>>

ClassifySpec == Init /\ [][Classify]_vars

\* DNS lookups and the steps of the program itself always complete and the
\* event loop runs an armed timer's callback; nothing obliges a server to
\* answer, to finish a response or to fail.
FairSpec ==
  /\ Spec
  /\ WF_vars(ExtractOk \/ ExtractFail)
  /\ WF_vars(ForHead)
  /\ WF_vars(Summary)
  /\ WF_vars(Resolve4)
  /\ WF_vars(Resolve6)
  /\ WF_vars(WhileHead)
  /\ WF_vars(Timeout)

\* ------------------------------------------------------------ properties -
TypeOK ==
  /\ rev \in Revisions
  /\ pc \in {"start", "for", "resolve4", "resolve6", "while", "fetch", "summary", "done"}
  /\ outcome \in LowLevelTags \cup {"none", "RESPONSE", "REDIRECT"}
  /\ i \in 0..MaxDomains
  /\ exitCode \in {0, 1}
  /\ redirects \in 0..MAX_REDIRECTS
  /\ timer \in {"none", "armed", "cleared", "fired"}
  /\ req \in {"none", "sent", "headers", "ended", "error"}
  /\ pending \in BOOLEAN
  /\ pending <=> pc = "fetch"
  /\ stale \in [{"sent", "headers"} -> 0..MaxDomains]
  /\ first \in {"none", "TIMEOUT", "END", "ERROR", "EARLIER"}
  /\ late \in BOOLEAN
  /\ \A k \in 1..Len(results) : results[k].status \in STATUS_ICONS

\* the status of the result of the domain the for loop is at
Status == results[i].status

\* the classification of the current domain issued requests and returned
Classified == pc = "for" /\ dns \in {"v4", "v6"}

\* the latest response was a redirect that checkDomainStatus followed
Followed == outcome = "REDIRECT"

\* C1: a domain for which the IPv4 and the IPv6 lookup both fail gets the
\* result {EXPIRED, not resolvable, not accessible}, and no request is ever
\* issued for it.
C1_ExpiredWithoutFetch ==
  dns = "fail" =>
    /\ pc = "for"
    /\ Len(results) = i
    /\ results[i] = [domain |-> uniqueDomains[i], status |-> "EXPIRED",
                     resolvable |-> FALSE, accessible |-> FALSE]
    /\ nFetch = 0

C1_Witness == dns = "fail" /\ pc = "for" /\ i = 2 /\ results[1].resolvable

\* C2: in every result accessible is true iff the status is VALID, so it is
\* false whenever resolvable is false.
C2_AccessibleIffValid ==
  \A k \in 1..Len(results) :
    /\ results[k].accessible <=> results[k].status = "VALID"
    /\ ~results[k].resolvable => ~results[k].accessible

C2_Witness ==
  /\ \E k \in 1..Len(results) : results[k].accessible
  /\ \E k \in 1..Len(results) : results[k].resolvable /\ ~results[k].accessible

\* C3: when the for loop of main ends, results holds one record per input
\* domain, in input order, however many requests each classification made;
\* at every loop head it holds one record per domain handled so far.
C3_OneResultPerDomain ==
  /\ pc = "for" => Len(results) = i
  /\ pc = "summary" =>
       /\ Len(results) = Len(uniqueDomains)
       /\ \A k \in 1..Len(uniqueDomains) : results[k].domain = uniqueDomains[k]

C3_Witness ==
  /\ pc = "summary"
  /\ Len(results) = 2
  /\ ~results[1].resolvable
  /\ results[2].status = "REDIRECT_LOOP"

\* C4: an exception raised inside the HTTPS attempt of checkDomainStatus never
\* reaches the caller of checkDomain.
C4_ExceptionAbsorbed == exc # "status"

\* C5: a low-level outcome tag of a fetch (TIMEOUT, REFUSED, INVALID_SSL,
\* UNREACHABLE) is the final status of the domain: the classification has
\* returned with it, no request is pending and none follows.
C5_LowLevelTagIsFinal ==
  outcome \in LowLevelTags =>
    /\ pc = "for"
    /\ ~pending
    /\ Len(results) = i
    /\ Status = outcome
    /\ results[i].resolvable

C5_Witness == outcome = "TIMEOUT" /\ nFetch = 3 /\ pc = "for"

\* C6: no request goes to a URL requested before in the same classification,
\* at most MAX_REDIRECTS requests are issued, and a classification whose
\* responses were all redirects, one of them to a URL requested before,
\* returns REDIRECT_LOOP.
C6_LoopWithoutRefetch ==
  /\ nFetch <= MAX_REDIRECTS
  /\ ~refetch
  /\ (Classified /\ Followed /\ revisit) => Status = "REDIRECT_LOOP"

\* C7: a classification whose responses were all redirects to URLs not
\* requested before returns REDIRECT_LOOP after exactly MAX_REDIRECTS
\* requests; a further request is never issued.
C7_ExhaustionAfterFiveFetches ==
  /\ nFetch <= MAX_REDIRECTS
  /\ (Classified /\ Followed /\ ~revisit) =>
       /\ Status = "REDIRECT_LOOP"
       /\ nFetch = MAX_REDIRECTS

C7_Witness ==
  /\ Classified /\ Followed /\ ~revisit
  /\ Status = "REDIRECT_LOOP"
  /\ nFetch = MAX_REDIRECTS

\* C8: a response with a code >= 500 gives SERVER_ERROR and one with a code
\* in 400..499 gives CLIENT_ERROR, whatever its body and headers; a response
\* is treated as a redirect exactly when its code is in 300..399 and it has a
\* Location header, and a 3xx response without one gets the status of the
\* content classification of its body.
C8_StatusCodeBoundaries ==
  probe # NoProbe =>
    /\ probe.code >= 500 => probe.verdict = ReturnStatus("SERVER_ERROR")
    /\ (probe.code >= 400 /\ probe.code < 500) => probe.verdict = ReturnStatus("CLIENT_ERROR")
    /\ probe.verdict.kind # "return" =>
         (probe.code >= 300 /\ probe.code < 400 /\ probe.loc.kind \notin {"absent", "empty"})
    /\ (probe.code >= 300 /\ probe.code < 400 /\ probe.loc.kind \in {"absent", "empty"}) =>
         probe.verdict = ReturnStatus(ContentStatus(rev, probe.body))

C8_Witness ==
  /\ probe.code = 399
  /\ probe.loc = NoLocation
  /\ probe.verdict = ReturnStatus("VALID")

\* C9: every call of fetchUrl eventually yields an outcome.
C9_FetchSettles == pending ~> ~pending

\* C10: a failure to obtain the domain list is logged and ends the process
\* with a non-zero exit code; a run whose extraction succeeded and that threw
\* nothing ends with exit code 0, whatever the statuses.
C10_ExtractionFailureExits ==
  /\ exc = "extract" => (errLogged /\ exitCode # 0)
  /\ (pc = "done" /\ exc = "none") => exitCode = 0

\* the probed response has a 2xx status code (it is neither an HTTP error nor
\* a redirect)
Probe2xx == probe.code >= 200 /\ probe.code < 300

\* C11: for a 2xx response, in both revisions: a body that is empty after
\* stripping <head> blocks, <noscript> blocks and whitespace and that has no
\* <script> content (a zero-length or whitespace-only body included) gets
\* EMPTY_PAGE; a stripped-empty body with non-empty <script> content gets
\* JS_ONLY.
C11_BlankPageDetection ==
  Probe2xx =>
    /\ (Stripped(probe.body) = <<>> /\ ScriptContent(probe.body) = <<>>) =>
         probe.verdict = ReturnStatus("EMPTY_PAGE")
    /\ (Stripped(probe.body) = <<>> /\ ScriptContent(probe.body) # <<>>) =>
         probe.verdict = ReturnStatus("JS_ONLY")

\* the body of the probed response has both Cloudflare error-wrapper markers
\* that the code tests for, and the text "Error 521"
ProbeCfError521 ==
  /\ Includes(probe.body, CfWrapper)
  /\ Includes(probe.body, CfErrorDetails)
  /\ Includes(probe.body, "Error 521")

\* C12 as stated: every 2xx response whose body has the Cloudflare
\* error-wrapper markers and the text "Error 521" gets SERVER_ERROR, never
\* PROTECTED, whatever other phrases the body contains.
C12_CloudflareErrorPage ==
  (Probe2xx /\ ProbeCfError521) => probe.verdict = ReturnStatus("SERVER_ERROR")

\* C12 as amended: every 2xx response whose body has the Cloudflare
\* error-wrapper markers and the text "Error 521" and is not empty after
\* stripping <head> blocks, <noscript> blocks and whitespace gets
\* SERVER_ERROR; with or without that condition it never gets PROTECTED.
C12_VisibleCloudflareErrorPage ==
  (Probe2xx /\ ProbeCfError521) =>
    /\ Stripped(probe.body) # <<>> => probe.verdict = ReturnStatus("SERVER_ERROR")
    /\ probe.verdict # ReturnStatus("PROTECTED")

C12_Witness ==
  /\ Probe2xx /\ ProbeCfError521
  /\ Includes(probe.body, RayId)
  /\ Includes(probe.body, "Buy this domain")
  /\ probe.verdict = ReturnStatus("SERVER_ERROR")

\* main awaits the classification of the domain the for loop is at: its DNS
\* lookups, or a step of its redirect loop
InProgress == pc \in {"resolve4", "resolve6", "while", "fetch"}

\* C13: domains are classified one at a time.  While domain number i is
\* being classified (from the start of its DNS lookup on) the results of all
\* i - 1 domains before it are in the results list and its own is not, so
\* the lookup of a domain starts only after the result of the previous one
\* was appended; results are in input order.
C13_OneDomainAtATime ==
  /\ InProgress => Len(results) = i - 1
  /\ Len(results) <= i
  /\ \A k \in 1..Len(results) : results[k].domain = uniqueDomains[k]

C13_Witness ==
  /\ pc = "resolve4"
  /\ i = 2
  /\ Len(results) = 1
  /\ results[1].resolvable
  /\ results[1].domain = uniqueDomains[1]

\* what the body of the probed response matches
ProbeBlank == Stripped(probe.body) = <<>>
ProbeCfPage == Includes(probe.body, CfWrapper) /\ Includes(probe.body, CfErrorDetails)
ProbeCfError == ProbeCfPage /\ \E p \in ERROR_PAGE_PATTERNS : Includes(probe.body, p)
ProbeWaf ==
  ProbeCfPage \/ Includes(probe.body, RayId) \/ \E p \in WAF_PATTERNS : Includes(probe.body, p)
ProbePlaceholder == \E p \in PLACEHOLDER_PATTERNS : Includes(probe.body, p)

\* C14: the content classification of a 2xx response returns the first
\* verdict that applies, in the order: empty / JS-only, Cloudflare error
\* page (SERVER_ERROR), Cloudflare identifier or WAF phrase (PROTECTED),
\* placeholder phrase (PLACEHOLDER), else VALID.
C14_ContentPrecedence ==
  Probe2xx =>
    /\ ProbeBlank => probe.verdict.status \in {"EMPTY_PAGE", "JS_ONLY"}
    /\ (~ProbeBlank /\ ProbeCfError) => probe.verdict = ReturnStatus("SERVER_ERROR")
    /\ (~ProbeBlank /\ ~ProbeCfError /\ ProbeWaf) => probe.verdict = ReturnStatus("PROTECTED")
    /\ (~ProbeBlank /\ ~ProbeCfError /\ ~ProbeWaf /\ ProbePlaceholder) =>
         probe.verdict = ReturnStatus("PLACEHOLDER")
    /\ (~ProbeBlank /\ ~ProbeCfError /\ ~ProbeWaf /\ ~ProbePlaceholder) =>
         probe.verdict = ReturnStatus("VALID")

\* C15: the status of every result is a member of the closed enumeration of
\* the specification, every produced status is a key of STATUS_ICONS, and
\* UNKNOWN is never produced.
C15_ClosedStatusSet ==
  \A k \in 1..Len(results) :
    /\ results[k].status \in
         {"VALID", "PLACEHOLDER", "EMPTY_PAGE", "JS_ONLY", "CLIENT_ERROR",
          "SERVER_ERROR", "INVALID_SSL", "EXPIRED", "UNREACHABLE", "REFUSED",
          "TIMEOUT", "REDIRECT_LOOP", "PROTECTED", "UNKNOWN"}
    /\ results[k].status \in STATUS_ICONS
    /\ results[k].status # "UNKNOWN"

C15_Witness ==
  /\ pc = "summary"
  /\ Len(results) = 2
  /\ results[1].status = "UNREACHABLE"
  /\ results[2].status = "JS_ONLY"

\* C16: the promise of a fetchUrl call is settled once, by the first of its
\* timeout, request-error and response-end events, and the outcome that
\* checkDomainStatus saw stays what that event gave when the other events
\* arrive later (the request is not aborted after a timeout); an event of an
\* earlier call never settles a later call.
C16_SettledOnceByFirstEvent ==
  /\ pending => first = "none"
  /\ first = "TIMEOUT" => (pc = "for" /\ outcome = "TIMEOUT" /\ Status = "TIMEOUT")
  /\ first = "ERROR" =>
       (pc = "for" /\ outcome \in LowLevelTags \ {"TIMEOUT"} /\ Status = outcome)
  /\ first = "END" => outcome \in {"RESPONSE", "REDIRECT"}
  /\ first # "EARLIER"

\* the second domain's fetch timed out after an event of the first domain's
\* open request had arrived, and its own response ended after the timeout
C16_Witness ==
  /\ i = 2
  /\ late
  /\ first = "TIMEOUT"
  /\ req = "ended"
  /\ pc = "for"
  /\ Status = "TIMEOUT"

\* C17: at the head of every iteration of the redirect loop the visited set
\* holds exactly `redirects` URLs, and redirects < MAX_REDIRECTS inside the
\* iteration; one classification issues at most MAX_REDIRECTS requests, all
\* to pairwise distinct URLs; the visited set and the counter start empty
\* and zero for every domain.
C17_VisitedMatchesRedirects ==
  /\ pc = "while" => Cardinality(visited) = redirects
  /\ pc = "fetch" => (redirects < MAX_REDIRECTS /\ Cardinality(visited) = redirects + 1)
  /\ (pc = "while" /\ nFetch = 0) => (visited = {} /\ redirects = 0)
  /\ nFetch <= MAX_REDIRECTS
  /\ ~refetch

====
